---- MODULE Spec2Model ----
(***************************************************************************)
(* Model of automate-improved-yarn-audit.                                  *)
(*                                                                         *)
(* Runner A (src/bin/automate-improved-yarn-audit.ts, first copy, built as *)
(* src/dist/automate-improved-yarn-audit.js): YarnAuditCheck + main.       *)
(* Runner B (src/unnamed/part_001): ImprovedYarnAuditRunner.               *)
(* The older second copy of Runner A in the same .ts file (lines 326-613)  *)
(* is the runner "A2": its own main, handlers and summary.                 *)
(*                                                                         *)
(* Text is a sequence of tokens.  A token is the JSON text of one record,  *)
(* a newline, or a piece of text that is not JSON.  A patched-versions     *)
(* string is a sequence of characters/lexemes in which " " is one space.   *)
(***************************************************************************)
EXTENDS Integers, Sequences, FiniteSets, TLC

(***************************************************************************)
(* Bounds of the model.                                                    *)
(***************************************************************************)
\* advisory lines the scanner writes in one run
MaxAdvisories == 2
\* stdout chunks the remediation subprocess writes in one run
MaxImprovedChunks == 1
\* stderr chunks the subprocesses write in one run
MaxStderrChunks == 1

(***************************************************************************)
(* Program constants.                                                      *)
(***************************************************************************)
AUDIT_ADVISORY == "auditAdvisory"
AUDIT_SUMMARY == "auditSummary"
NO_PATCH_PATCHED_VERSION == <<"<", "0.0.0">>
NO_PATCH_AVAILABLE == <<"No patch available">>
SEVERITY_LEVELS == <<"critical", "high", "moderate", "low", "info">>

(***************************************************************************)
(* Input domains.                                                          *)
(***************************************************************************)
Modules == {"foo", "bar"}
AdvisoryIds == {"GHSA-1", "GHSA-2"}
PatchedValues ==
  { <<"<", "0.0.0">>,              \* "<0.0.0"
    <<"<", " ", "0.0.0">>,         \* "< 0.0.0"
    <<"<", " ", " ", "0.0.0">>,    \* "<  0.0.0"
    <<">=", "1.2.3">> }            \* ">=1.2.3"
TotalDependencies == {7, 42}
\* exit codes of the scanner: clean, vulnerabilities found, anything else
ScannerExitCodes == {0, 12, 130}
ImprovedExitCodes == {0, 1}

Advisory(m, s, p, g) ==
  [type |-> AUDIT_ADVISORY, module_name |-> m, severity |-> s,
   patched_versions |-> p, github_advisory_id |-> g]

Summary(n) == [type |-> AUDIT_SUMMARY, totalDependencies |-> n]

Range(f) == {f[i] : i \in DOMAIN f}

\* Runner A never reads github_advisory_id, Runner B never reads severity:
\* each runner's scanner output varies the fields that runner reads.
AdvisoriesA ==
  {Advisory(m, s, <<">=", "1.2.3">>, "GHSA-1") :
      m \in Modules, s \in Range(SEVERITY_LEVELS)}
  \cup {Advisory("foo", "high", p, "GHSA-1") : p \in PatchedValues}

AdvisoriesB ==
  {Advisory(m, "high", p, g) :
      m \in Modules, p \in PatchedValues, g \in AdvisoryIds}

AdvisoriesOf(r) == IF r = "A" THEN AdvisoriesA ELSE AdvisoriesB

\* command lines (process.argv.slice(2)) of Runner A
ArgvA ==
  { <<>>, <<"proj">>, <<"proj", "foo">>, <<"proj", "bar">>,
    <<"proj", "foo", "bar">>, <<"proj", "bar", "foo">> }

\* command lines of the second copy of Runner A's script
ArgvSecond == {<<>>, <<"foo">>, <<"proj", "foo">>}

(***************************************************************************)
(* Tokens of captured text.                                                *)
(***************************************************************************)
Json(r) == [tok |-> "json", value |-> r]
Newline == [tok |-> "nl"]
Garbage == [tok |-> "text"]

IsAdvisoryToken(t) == t.tok = "json" /\ t.value.type = AUDIT_ADVISORY

ContentTokens(r) ==
  {Json(a) : a \in AdvisoriesOf(r)}
  \cup {Json(Summary(n)) : n \in TotalDependencies}
  \cup {Garbage}

\* What the scanner may have written so far: complete or partial lines,
\* at most MaxAdvisories advisory lines, then at most one line that is the
\* summary or a line that is not JSON.
ScannerStream(t) ==
  /\ \A i \in 1..Len(t) :
       IF t[i].tok = "nl"
         THEN i > 1 /\ t[i-1].tok # "nl"
         ELSE /\ i > 1 => t[i-1].tok = "nl"
              /\ ~IsAdvisoryToken(t[i]) => i >= Len(t) - 1
  /\ Cardinality({i \in 1..Len(t) : IsAdvisoryToken(t[i])}) <= MaxAdvisories

(***************************************************************************)
(* String and array primitives the code uses.                              *)
(***************************************************************************)
\* String.prototype.replace(" ", ""): removes the first occurrence only
StringReplaceFirstSpace_EverySpace(s) == SelectSeq(s, LAMBDA c : c # " ")

StringReplaceFirstSpace(s) ==
  IF \E i \in 1..Len(s) : s[i] = " "
    THEN LET i == CHOOSE k \in 1..Len(s) :
                    s[k] = " " /\ \A j \in 1..(k-1) : s[j] # " "
         IN SubSeq(s, 1, i-1) \o SubSeq(s, i+1, Len(s))
    ELSE s

\* String.prototype.trim on captured text: newlines are the whitespace
StringTrim(t) ==
  IF \A i \in 1..Len(t) : t[i].tok = "nl"
    THEN <<>>
    ELSE LET a == CHOOSE k \in 1..Len(t) :
                    t[k].tok # "nl" /\ \A j \in 1..(k-1) : t[j].tok = "nl"
             b == CHOOSE k \in 1..Len(t) :
                    t[k].tok # "nl" /\ \A j \in (k+1)..Len(t) : t[j].tok = "nl"
         IN SubSeq(t, a, b)

\* String.prototype.split("\n"): "" gives one empty line
RECURSIVE StringSplitLines(_)
StringSplitLines(t) ==
  IF \E i \in 1..Len(t) : t[i].tok = "nl"
    THEN LET i == CHOOSE k \in 1..Len(t) :
                    t[k].tok = "nl" /\ \A j \in 1..(k-1) : t[j].tok # "nl"
         IN <<SubSeq(t, 1, i-1)>> \o StringSplitLines(SubSeq(t, i+1, Len(t)))
    ELSE <<t>>

\* JSON.parse of one line succeeds iff the line is exactly one JSON text
JsonParses(line) == Len(line) = 1 /\ line[1].tok = "json"
JsonValue(line) == line[1].value

\* Array.prototype.indexOf: zero-based, -1 when absent
IndexOf(arr, x) ==
  IF \E i \in 1..Len(arr) : arr[i] = x
    THEN (CHOOSE i \in 1..Len(arr) :
            arr[i] = x /\ \A j \in 1..(i-1) : arr[j] # x) - 1
    ELSE -1

\* Array.prototype.includes
Includes_FirstOnly(arr, x) == Len(arr) > 0 /\ arr[1] = x
Includes(arr, x) == \E i \in 1..Len(arr) : arr[i] = x

\* Array.prototype.join(sep)
RECURSIVE Join(_, _)
Join(arr, sep) ==
  IF Len(arr) = 0 THEN <<>>
  ELSE IF Len(arr) = 1 THEN <<arr[1]>>
  ELSE <<arr[1], sep>> \o Join(Tail(arr), sep)

(***************************************************************************)
(* Runner A: YarnAuditCheck.                                               *)
(***************************************************************************)
\* formatStatus(status) for the boolean statuses main passes
formatStatus(status) ==
  IF status THEN [color |-> "green", text |-> "PASS"]
            ELSE [color |-> "red", text |-> "FAIL"]

formatSeverity(severity) ==
  IF severity \in {"critical", "high"}
    THEN [color |-> "red", text |-> severity]
  ELSE IF severity = "moderate"
    THEN [color |-> "yellow", text |-> severity]
  ELSE [color |-> "none", text |-> severity]

\* the comparator handed to Array.prototype.sort
SeverityCompare(a, b) ==
  IndexOf(SEVERITY_LEVELS, a.severity) - IndexOf(SEVERITY_LEVELS, b.severity)

\* Array.prototype.sort(SeverityCompare): a stable sort (ECMAScript 2019)
InsertSorted_BeforeEqual(sorted, x) ==
  LET k == Cardinality({i \in 1..Len(sorted) :
                           SeverityCompare(sorted[i], x) < 0})
  IN SubSeq(sorted, 1, k) \o <<x>> \o SubSeq(sorted, k+1, Len(sorted))

InsertSorted(sorted, x) ==
  LET k == Cardinality({i \in 1..Len(sorted) :
                           SeverityCompare(sorted[i], x) <= 0})
  IN SubSeq(sorted, 1, k) \o <<x>> \o SubSeq(sorted, k+1, Len(sorted))

RECURSIVE ArraySort(_)
ArraySort(arr) ==
  IF Len(arr) = 0 THEN <<>>
  ELSE InsertSorted(ArraySort(SubSeq(arr, 1, Len(arr) - 1)), arr[Len(arr)])

\* this.SEVERITY_LEVELS.slice(0, 2): the severities that fail the run
FailingSeverities_OnlyFirst == SubSeq(SEVERITY_LEVELS, 1, 1)
FailingSeverities == SubSeq(SEVERITY_LEVELS, 1, 2)

\* this.excludePackageList.includes(advisory.data.advisory.module_name)
IsExcluded_FirstNameOnly(excludeList, advisory) ==
  Len(excludeList) > 0 /\ excludeList[1] = advisory.module_name
IsExcluded(excludeList, advisory) ==
  Includes(excludeList, advisory.module_name)

\* the no-patch test both runners apply to patched_versions
IsNoPatch(patched_versions) ==
  StringReplaceFirstSpace(patched_versions) = NO_PATCH_PATCHED_VERSION

\* the auditPackage object built for one included advisory; its Title,
\* "Dependency of", Path and "More info" entries copy fields that no
\* decision reads and are left out
AuditPackage(advisory) ==
  [Package |-> advisory.module_name,
   Severity |-> advisory.severity,
   PatchedIn |-> IF IsNoPatch(advisory.patched_versions)
                   THEN NO_PATCH_AVAILABLE
                   ELSE advisory.patched_versions]

\* showTable(tableRows) for one auditPackage
AdvisoryTable(pkg) ==
  [stream |-> "stdout", kind |-> "advisoryTable",
   Package |-> pkg.Package, Severity |-> formatSeverity(pkg.Severity),
   PatchedIn |-> pkg.PatchedIn]

RECURSIVE CountSeverities_Flag(_, _)
CountSeverities_Flag(packages, acc) ==
  IF Len(packages) = 0 THEN acc
  ELSE CountSeverities_Flag(Tail(packages),
         [acc EXCEPT ![packages[1].Severity] = 1])
RECURSIVE CountSeverities(_, _)
CountSeverities(packages, acc) ==
  IF Len(packages) = 0 THEN acc
  ELSE CountSeverities(Tail(packages),
         [acc EXCEPT ![packages[1].Severity] = @ + 1])

\* printAuditSummary: what it prints, and whether it threw (no auditSummary
\* record: auditSummary[0].data is a TypeError before anything is printed)
printAuditSummary(auditOutputRecords, finalAuditPackages) ==
  LET auditSummary ==
        SelectSeq(auditOutputRecords, LAMBDA i : i.type = AUDIT_SUMMARY)
  IN IF Len(auditSummary) = 0
       THEN [out |-> <<>>, threw |-> TRUE, counter |-> <<>>]
       ELSE
         LET severity == [l \in Range(SEVERITY_LEVELS) |-> 0]
             severityCounts == CountSeverities(finalAuditPackages, severity)
             perLevel == [i \in 1..Len(SEVERITY_LEVELS) |->
                            [label |-> SEVERITY_LEVELS[i],
                             count |-> severityCounts[SEVERITY_LEVELS[i]]]]
             displayedCounts == SelectSeq(perLevel, LAMBDA c : c.count > 0)
             summaryLine ==
               [stream |-> "stdout", kind |-> "summaryLine",
                found |-> Len(finalAuditPackages),
                audited |-> auditSummary[1].totalDependencies]
             severityLine ==
               [stream |-> "stdout", kind |-> "severityLine",
                counts |-> displayedCounts]
         IN [out |-> IF Len(finalAuditPackages) > 0
                       THEN <<summaryLine, severityLine>>
                       ELSE <<summaryLine>>,
             threw |-> FALSE,
             counter |-> <<[initial |-> severity, counts |-> severityCounts]>>]

\* excludeAndDisplayPackageInfo: what it prints, the value it returns, and
\* whether printAuditSummary threw out of it
excludeAndDisplayPackageInfo(auditOutputRecords, excludeList) ==
  LET auditAdvisories ==
        ArraySort(SelectSeq(auditOutputRecords,
                            LAMBDA i : i.type = AUDIT_ADVISORY))
      included ==
        SelectSeq(auditAdvisories, LAMBDA a : ~IsExcluded(excludeList, a))
      finalAuditPackages ==
        [i \in 1..Len(included) |-> AuditPackage(included[i])]
      tables ==
        [i \in 1..Len(included) |-> AdvisoryTable(finalAuditPackages[i])]
      vulnerablePackages ==
        SelectSeq(finalAuditPackages,
                  LAMBDA i : Includes(FailingSeverities, i.Severity))
      pass == Len(vulnerablePackages) = 0
      excluded ==
        IF Len(excludeList) > 0
          THEN << [stream |-> "stdout", kind |-> "excludedHeader",
                   count |-> Len(excludeList)],
                  [stream |-> "stdout", kind |-> "excludedTable",
                   names |-> excludeList] >>
          ELSE <<>>
      summary == printAuditSummary(auditOutputRecords, finalAuditPackages)
  IN [out |-> tables \o excluded \o summary.out,
      threw |-> summary.threw,
      pass |-> pass,
      counter |-> summary.counter]

\* parsingAndFilteringOutput of Runner A: the records, or a SyntaxError
parsingAndFilteringOutputA(text) ==
  LET auditLines == StringSplitLines(StringTrim(text))
  IN IF \A i \in 1..Len(auditLines) : JsonParses(auditLines[i])
       THEN [ok |-> TRUE,
             value |-> [i \in 1..Len(auditLines) |-> JsonValue(auditLines[i])]]
       ELSE [ok |-> FALSE, value |-> <<>>]

(***************************************************************************)
(* State.                                                                  *)
(***************************************************************************)
VARIABLES
  runner,              \* the entry point that was started: "A", "B", or
                       \* "A2" for the second copy of Runner A's script
  argv,                \* process.argv.slice(2)
  pc,                  \* where the main script is
  cwd,                 \* the working directory of the process
  excludePackageList,  \* YarnAuditCheck.excludePackageList
  yarnAuditProcess,    \* the scanner: "unspawned", "running", "closed"
  auditOutput,         \* the stdout accumulator of runYarnAudit
  scannerCode,         \* <<code>> once the scanner has closed
  promise,             \* the promise runYarnAudit returned
  console,             \* the lines and tables printed, in order
  exitCode,            \* <<code>> once this process has exited
  improvedProcess,     \* the remediation subprocess
  improvedArgs,        \* the argument lists it was spawned with, in order
  improvedOutput,      \* the stdout accumulator of runYarnAuditImproved
  improvedCode,        \* <<code>> once the remediation has closed
  improvedPromise,     \* the promise runYarnAuditImproved returned
  stderrChunks,        \* the stderr chunks the subprocesses have written, in order
  severityCounter      \* <<[initial, counts]>>: the per-severity counter of
                       \* the last printAuditSummary, as built and as counted

vars == <<runner, argv, pc, cwd, excludePackageList, yarnAuditProcess,
          auditOutput, scannerCode, promise, console, exitCode,
          improvedProcess, improvedArgs, improvedOutput, improvedCode,
          improvedPromise, stderrChunks, severityCounter>>

scannerVars == <<yarnAuditProcess, auditOutput, scannerCode>>
improvedVars == <<improvedProcess, improvedArgs, improvedOutput,
                  improvedCode, improvedPromise>>

Pending == [state |-> "pending"]
Fulfilled(v) == [state |-> "fulfilled", value |-> v]
Rejected(m) == [state |-> "rejected", reason |-> m]

ParseFailure == [message |-> "Failed to parse JSON. See raw output above."]
ScannerExitFailure(code) ==
  [message |-> "Yarn audit process exited with code", code |-> code]
ImprovedExitFailure(code) ==
  [message |-> "Improved yarn audit process exited with code", code |-> code]

Init ==
  /\ runner \in {"A", "A2", "B"}
  /\ argv \in IF runner = "A" THEN ArgvA
               ELSE IF runner = "A2" THEN ArgvSecond
               ELSE {<<>>}
  /\ pc = "start"
  /\ cwd = "."
  /\ excludePackageList = <<>>
  /\ yarnAuditProcess = "unspawned"
  /\ auditOutput = <<>>
  /\ scannerCode = <<>>
  /\ promise = Pending
  /\ console = <<>>
  /\ exitCode = <<>>
  /\ improvedProcess = "unspawned"
  /\ improvedArgs = <<>>
  /\ improvedOutput = <<>>
  /\ improvedCode = <<>>
  /\ improvedPromise = Pending
  /\ stderrChunks = <<>>
  /\ severityCounter = <<>>

\* the scanner has written whole lines when it closes
CompleteLines(t) == IF Len(t) = 0 THEN TRUE ELSE t[Len(t)].tok = "nl"

\* a stdout chunk: one token, or a line's content with its newline
StdoutChunks(r) ==
  {<<c>> : c \in ContentTokens(r)} \cup {<<Newline>>}
  \cup {<<c, Newline>> : c \in ContentTokens(r)}

(***************************************************************************)
(* Runner A: main and the handlers of runYarnAudit.                        *)
(***************************************************************************)
\* the top-level script up to the return of runYarnAudit()
MainA ==
  /\ runner = "A"
  /\ pc = "start"
  /\ IF Len(argv) = 0
       THEN /\ console' = Append(console,
                 [stream |-> "stdout", kind |-> "usage"])
            /\ exitCode' = <<1>>
            /\ pc' = "exited"
            /\ UNCHANGED <<cwd, excludePackageList, scannerVars, promise>>
       ELSE /\ excludePackageList' = Tail(argv)
            /\ cwd' = Head(argv)   \* process.chdir(rootPath), an existing directory
            /\ yarnAuditProcess' = "running"
            /\ auditOutput' = <<>>
            /\ promise' = Pending
            /\ pc' = "waiting"
            /\ UNCHANGED <<scannerCode, console, exitCode>>
  /\ UNCHANGED <<runner, argv, improvedVars,
                 stderrChunks, severityCounter>>

\* yarnAuditProcess.stdout.on("data")
AStdoutData_Overwrite(chunk) ==
  /\ runner = "A"
  /\ pc = "waiting"
  /\ yarnAuditProcess = "running"
  /\ ScannerStream(auditOutput \o chunk)
  /\ auditOutput' = chunk
  /\ UNCHANGED <<runner, argv, pc, cwd, excludePackageList, yarnAuditProcess,
                 scannerCode, promise, console, exitCode, improvedVars,
                 stderrChunks, severityCounter>>
AStdoutData(chunk) ==
  /\ runner = "A"
  /\ pc = "waiting"
  /\ yarnAuditProcess = "running"
  /\ ScannerStream(auditOutput \o chunk)
  /\ auditOutput' = auditOutput \o chunk
  /\ UNCHANGED <<runner, argv, pc, cwd, excludePackageList, yarnAuditProcess,
                 scannerCode, promise, console, exitCode, improvedVars,
                 stderrChunks, severityCounter>>

\* a stderr chunk: a warning record, or a line that is not JSON followed by
\* a warning record
StderrWarning == [type |-> "warning", data |-> "message"]
StderrChunks ==
  { <<Json(StderrWarning), Newline>>,
    <<Garbage, Newline, Json(StderrWarning), Newline>> }

\* the try/catch of the stderr handler: what the lines that fail to parse
\* log, in order
StderrCatchLog_Silent(lines) == <<>>
RECURSIVE StderrCatchLog(_)
StderrCatchLog(lines) ==
  IF Len(lines) = 0 THEN <<>>
  ELSE (IF JsonParses(lines[1])
          THEN <<>>
          ELSE << [stream |-> "stderr", kind |-> "stderrParseError",
                   error |-> "SyntaxError"],
                  [stream |-> "stderr", kind |-> "stderrRawLine",
                   line |-> lines[1]] >>)
       \o StderrCatchLog(Tail(lines))

\* auditResult.forEach: one line per record that did parse, in order
RECURSIVE StderrResultLog(_)
StderrResultLog(lines) ==
  IF Len(lines) = 0 THEN <<>>
  ELSE (IF JsonParses(lines[1])
          THEN << [stream |-> "stdout", kind |-> "stderrRecord",
                   type |-> JsonValue(lines[1]).type,
                   data |-> JsonValue(lines[1]).data] >>
          ELSE <<>>)
       \o StderrResultLog(Tail(lines))

\* yarnAuditProcess.stderr.on("data")
AStderrData(chunk) ==
  /\ runner = "A"
  /\ pc = "waiting"
  /\ yarnAuditProcess = "running"
  /\ Len(stderrChunks) < MaxStderrChunks
  /\ stderrChunks' = Append(stderrChunks, chunk)
  /\ IF Len(chunk) > 0
       THEN LET trimAndSplittedArray == StringSplitLines(StringTrim(chunk))
            IN console' = console \o StderrCatchLog(trimAndSplittedArray)
                            \o StderrResultLog(trimAndSplittedArray)
       ELSE UNCHANGED console
  /\ UNCHANGED <<runner, argv, pc, cwd, excludePackageList, scannerVars,
                 promise, exitCode, improvedVars, severityCounter>>

\* an exception that leaves an event handler: node prints it to standard
\* error and the process exits with code 1
Uncaught(error) ==
  /\ console' = Append(console, [stream |-> "stderr", kind |-> "uncaught",
                                 error |-> error])
  /\ exitCode' = <<1>>
  /\ pc' = "exited"
  /\ UNCHANGED <<promise, severityCounter>>

\* yarnAuditProcess.on("close")
ACloseHandler(code) ==
  /\ runner = "A"
  /\ pc = "waiting"
  /\ yarnAuditProcess = "running"
  /\ CompleteLines(auditOutput)
  /\ yarnAuditProcess' = "closed"
  /\ scannerCode' = <<code>>
  /\ LET parsed == parsingAndFilteringOutputA(auditOutput)
     IN IF code = 0
          THEN IF ~parsed.ok
                 THEN Uncaught("SyntaxError")
                 ELSE LET summary == printAuditSummary(parsed.value, <<>>)
                      IN IF summary.threw
                           THEN Uncaught("TypeError")
                           ELSE /\ console' = console \o summary.out
                                /\ severityCounter' = summary.counter
                                /\ promise' = Fulfilled(TRUE)
                                /\ UNCHANGED <<pc, exitCode>>
        ELSE IF code = 12
          THEN IF ~parsed.ok
                 THEN /\ console' = Append(console,
                           [stream |-> "stderr", kind |-> "parseError",
                            error |-> "SyntaxError"])
                      /\ promise' = Rejected(ParseFailure)
                      /\ UNCHANGED <<pc, exitCode, severityCounter>>
                 ELSE LET response ==
                            excludeAndDisplayPackageInfo(parsed.value,
                                                         excludePackageList)
                      IN IF response.threw
                           THEN /\ console' = Append(console \o response.out,
                                     [stream |-> "stderr",
                                      kind |-> "parseError",
                                      error |-> "TypeError"])
                                /\ promise' = Rejected(ParseFailure)
                                /\ UNCHANGED <<pc, exitCode, severityCounter>>
                           ELSE /\ console' = console \o response.out
                                /\ severityCounter' = response.counter
                                /\ promise' = Fulfilled(response.pass)
                                /\ UNCHANGED <<pc, exitCode>>
        ELSE /\ console' = Append(console,
                  [stream |-> "stderr", kind |-> "rawOutput",
                   text |-> auditOutput])
             /\ promise' = Rejected(ScannerExitFailure(code))
             /\ UNCHANGED <<pc, exitCode, severityCounter>>
  /\ UNCHANGED <<runner, argv, cwd, excludePackageList, auditOutput,
                 improvedVars,
                 stderrChunks>>

\* if (!status) process.exit(1); process.exit(0);
StatusExitCode_Inverted(status) == IF status THEN 1 ELSE 0
StatusExitCode(status) == IF ~status THEN 1 ELSE 0

\* the .then callback of main
AThen ==
  /\ runner = "A"
  /\ pc = "waiting"
  /\ promise.state = "fulfilled"
  /\ console' = Append(console,
        [stream |-> "stdout", kind |-> "statusTable",
         status |-> formatStatus(promise.value)])
  /\ exitCode' = <<StatusExitCode(promise.value)>>
  /\ pc' = "exited"
  /\ UNCHANGED <<runner, argv, cwd, excludePackageList, scannerVars, promise,
                 improvedVars,
                 stderrChunks, severityCounter>>

\* the .catch callback of main
ACatch ==
  /\ runner = "A"
  /\ pc = "waiting"
  /\ promise.state = "rejected"
  /\ console' = Append(console,
        [stream |-> "stderr", kind |-> "errorLine",
         message |-> promise.reason])
  /\ exitCode' = <<1>>
  /\ pc' = "exited"
  /\ UNCHANGED <<runner, argv, cwd, excludePackageList, scannerVars, promise,
                 improvedVars,
                 stderrChunks, severityCounter>>

NextA ==
  \/ MainA
  \/ \E chunk \in StdoutChunks("A") : AStdoutData(chunk)
  \/ \E chunk \in StderrChunks : AStderrData(chunk)
  \/ \E code \in ScannerExitCodes : ACloseHandler(code)
  \/ AThen
  \/ ACatch

(***************************************************************************)
(* Runner A, second copy: the file holds an earlier version of the same    *)
(* script after the first one, with its own main, handlers and summary.    *)
(***************************************************************************)
\* the indices of a five-element array, as property keys
ArrayKeys == <<"0", "1", "2", "3", "4">>

\* SEVERITY_LEVELS.map((level) => ({ [level]: 0 })): an array of single-key
\* objects
SeverityArray ==
  [k \in Range(ArrayKeys) |->
     [l \in {SEVERITY_LEVELS[IndexOf(ArrayKeys, k) + 1]} |-> 0]]

\* the reduce over finalAuditPackages: acc[severity] = (acc[severity] || 0) + 1
RECURSIVE CountSeverities2(_, _)
CountSeverities2(packages, acc) ==
  IF Len(packages) = 0 THEN acc
  ELSE LET sev == packages[1].Severity
       IN CountSeverities2(Tail(packages),
            [k \in DOMAIN acc \cup {sev} |->
               IF k = sev
                 THEN (IF k \in DOMAIN acc THEN acc[k] + 1 ELSE 1)
                 ELSE acc[k]])

\* SEVERITY_LEVELS.forEach: if (!severityCounts[level]) severityCounts[level] = 0
InitializeMissing(severityCounts) ==
  [k \in DOMAIN severityCounts \cup Range(SEVERITY_LEVELS) |->
     IF k \in DOMAIN severityCounts THEN severityCounts[k] ELSE 0]

\* printAuditSummary of the second copy
printAuditSummary2(auditOutputRecords, finalAuditPackages) ==
  LET auditSummary ==
        SelectSeq(auditOutputRecords, LAMBDA i : i.type = AUDIT_SUMMARY)
  IN IF Len(auditSummary) = 0
       THEN [out |-> <<>>, threw |-> TRUE, counter |-> <<>>]
       ELSE
         LET severity == SeverityArray
             severityCounts ==
               InitializeMissing(CountSeverities2(finalAuditPackages, severity))
             perLevel == [i \in 1..Len(SEVERITY_LEVELS) |->
                            [label |-> SEVERITY_LEVELS[i],
                             count |-> severityCounts[SEVERITY_LEVELS[i]]]]
             displayedCounts == SelectSeq(perLevel, LAMBDA c : c.count > 0)
             summaryLine ==
               [stream |-> "stdout", kind |-> "summaryLine",
                found |-> Len(finalAuditPackages),
                audited |-> auditSummary[1].totalDependencies]
             severityLine ==
               [stream |-> "stdout", kind |-> "severityLine",
                counts |-> displayedCounts]
         IN IF Len(finalAuditPackages) > 0
              THEN [out |-> <<summaryLine, severityLine>>,
                    threw |-> FALSE,
                    counter |-> <<[initial |-> severity,
                                   counts |-> severityCounts]>>]
              ELSE [out |-> <<summaryLine>>,
                    threw |-> FALSE,
                    counter |-> <<[initial |-> severity,
                                   counts |-> severity]>>]

\* excludeAndDisplayPackageInfo of the second copy: the rows go to a table
\* of the module that nothing prints
excludeAndDisplayPackageInfo2(auditOutputRecords, excludeList) ==
  LET auditAdvisories ==
        ArraySort(SelectSeq(auditOutputRecords,
                            LAMBDA i : i.type = AUDIT_ADVISORY))
      included ==
        SelectSeq(auditAdvisories, LAMBDA a : ~IsExcluded(excludeList, a))
      finalAuditPackages ==
        [i \in 1..Len(included) |-> AuditPackage(included[i])]
      vulnerablePackages ==
        SelectSeq(finalAuditPackages,
                  LAMBDA i : Includes(FailingSeverities, i.Severity))
      pass == Len(vulnerablePackages) = 0
      excluded ==
        IF Len(excludeList) > 0
          THEN << [stream |-> "stdout", kind |-> "excludedHeader",
                   count |-> Len(excludeList)] >>
          ELSE <<>>
      summary == printAuditSummary2(auditOutputRecords, finalAuditPackages)
  IN [out |-> excluded \o summary.out,
      threw |-> summary.threw,
      pass |-> pass,
      counter |-> summary.counter]

\* the top-level script of the second copy: every argument is a package to
\* exclude, and the promise of runYarnAudit() is dropped
Main2 ==
  /\ runner = "A2"
  /\ pc = "start"
  /\ IF Len(argv) = 0
       THEN /\ console' = Append(console,
                 [stream |-> "stdout", kind |-> "usage"])
            /\ exitCode' = <<1>>
            /\ pc' = "exited"
            /\ UNCHANGED <<excludePackageList, scannerVars, promise>>
       ELSE /\ excludePackageList' = argv
            /\ yarnAuditProcess' = "running"
            /\ auditOutput' = <<>>
            /\ promise' = Pending
            /\ pc' = "waiting"
            /\ UNCHANGED <<scannerCode, console, exitCode>>
  /\ UNCHANGED <<runner, argv, cwd, improvedVars,
                 stderrChunks, severityCounter>>

\* yarnAuditProcess.stdout.on("data")
StdoutData2(chunk) ==
  /\ runner = "A2"
  /\ pc = "waiting"
  /\ yarnAuditProcess = "running"
  /\ ScannerStream(auditOutput \o chunk)
  /\ auditOutput' = auditOutput \o chunk
  /\ UNCHANGED <<runner, argv, pc, cwd, excludePackageList, yarnAuditProcess,
                 scannerCode, promise, console, exitCode, improvedVars,
                 stderrChunks, severityCounter>>

\* yarnAuditProcess.stderr.on("data"): the catch block is empty
StderrData2(chunk) ==
  /\ runner = "A2"
  /\ pc = "waiting"
  /\ yarnAuditProcess = "running"
  /\ Len(stderrChunks) < MaxStderrChunks
  /\ stderrChunks' = Append(stderrChunks, chunk)
  /\ IF Len(chunk) > 0
       THEN LET trimAndSplittedArray == StringSplitLines(StringTrim(chunk))
            IN console' = console \o StderrResultLog(trimAndSplittedArray)
       ELSE UNCHANGED console
  /\ UNCHANGED <<runner, argv, pc, cwd, excludePackageList, scannerVars,
                 promise, exitCode, improvedVars, severityCounter>>

\* yarnAuditProcess.on("close")
CloseHandler2(code) ==
  /\ runner = "A2"
  /\ pc = "waiting"
  /\ yarnAuditProcess = "running"
  /\ CompleteLines(auditOutput)
  /\ yarnAuditProcess' = "closed"
  /\ scannerCode' = <<code>>
  /\ LET parsed == parsingAndFilteringOutputA(auditOutput)
     IN IF code = 0
          THEN IF ~parsed.ok
                 THEN Uncaught("SyntaxError")
                 ELSE LET summary == printAuditSummary2(parsed.value, <<>>)
                      IN IF summary.threw
                           THEN Uncaught("TypeError")
                           ELSE /\ console' = console \o summary.out
                                /\ severityCounter' = summary.counter
                                /\ promise' = Fulfilled(TRUE)
                                /\ UNCHANGED <<pc, exitCode>>
        ELSE IF code = 12
          THEN IF ~parsed.ok
                 THEN /\ console' = Append(console,
                           [stream |-> "stderr", kind |-> "parseError",
                            error |-> "SyntaxError"])
                      /\ promise' = Rejected(ParseFailure)
                      /\ UNCHANGED <<pc, exitCode, severityCounter>>
                 ELSE LET response ==
                            excludeAndDisplayPackageInfo2(parsed.value,
                                                          excludePackageList)
                      IN IF response.threw
                           THEN /\ console' = Append(console \o response.out,
                                     [stream |-> "stderr",
                                      kind |-> "parseError",
                                      error |-> "TypeError"])
                                /\ promise' = Rejected(ParseFailure)
                                /\ UNCHANGED <<pc, exitCode, severityCounter>>
                           ELSE /\ console' = console \o response.out
                                /\ severityCounter' = response.counter
                                /\ promise' = Fulfilled(response.pass)
                                /\ UNCHANGED <<pc, exitCode>>
        ELSE /\ promise' = Rejected(ScannerExitFailure(code))
             /\ UNCHANGED <<console, pc, exitCode, severityCounter>>
  /\ UNCHANGED <<runner, argv, cwd, excludePackageList, auditOutput,
                 improvedVars,
                 stderrChunks>>

\* the exit codes node ends with when a rejected promise has no handler:
\* 1 where unhandled rejections are thrown, 0 where they only warn
UnhandledRejectionExitCodes == {0, 1}

\* nothing is left to run once the dropped promise is settled: the process
\* ends by itself, after node reported an unhandled rejection if there is one
Exit2(code) ==
  /\ runner = "A2"
  /\ pc = "waiting"
  /\ promise.state # "pending"
  /\ IF promise.state = "fulfilled"
       THEN /\ code = 0
            /\ UNCHANGED console
       ELSE console' = Append(console,
               [stream |-> "stderr", kind |-> "unhandledRejection",
                message |-> promise.reason])
  /\ exitCode' = <<code>>
  /\ pc' = "exited"
  /\ UNCHANGED <<runner, argv, cwd, excludePackageList, scannerVars, promise,
                 improvedVars,
                 stderrChunks, severityCounter>>

NextSecond ==
  \/ Main2
  \/ \E chunk \in StdoutChunks("A") : StdoutData2(chunk)
  \/ \E chunk \in StderrChunks : StderrData2(chunk)
  \/ \E code \in ScannerExitCodes : CloseHandler2(code)
  \/ \E code \in UnhandledRejectionExitCodes : Exit2(code)

(***************************************************************************)
(* Runner B: ImprovedYarnAuditRunner.                                      *)
(***************************************************************************)
\* JavaScript null (the data of a clean audit)
Null == <<"null">>

addUniqueObject_ByAdvisoryId(packagesWithNoPatchAvailable, advisory) ==
  LET isDuplicate ==
        \E i \in 1..Len(packagesWithNoPatchAvailable) :
           packagesWithNoPatchAvailable[i].advisoryId = advisory.advisoryId
  IN IF ~isDuplicate
       THEN Append(packagesWithNoPatchAvailable, advisory)
       ELSE packagesWithNoPatchAvailable

addUniqueObject(packagesWithNoPatchAvailable, advisory) ==
  LET isDuplicate ==
        \E i \in 1..Len(packagesWithNoPatchAvailable) :
           packagesWithNoPatchAvailable[i].moduleName = advisory.moduleName
  IN IF ~isDuplicate
       THEN Append(packagesWithNoPatchAvailable, advisory)
       ELSE packagesWithNoPatchAvailable

\* the forEach of findPackagesWithNoPatch over the advisories left to visit
RECURSIVE CollectNoPatch(_, _)
CollectNoPatch(auditAdvisories, packagesWithNoPatch) ==
  IF Len(auditAdvisories) = 0 THEN packagesWithNoPatch
  ELSE LET element == auditAdvisories[1]
           advisory == [moduleName |-> element.module_name,
                        advisoryId |-> element.github_advisory_id]
       IN CollectNoPatch(Tail(auditAdvisories),
            IF IsNoPatch(element.patched_versions)
              THEN addUniqueObject(packagesWithNoPatch, advisory)
              ELSE packagesWithNoPatch)

findPackagesWithNoPatch(auditOutputRecords) ==
  CollectNoPatch(SelectSeq(auditOutputRecords,
                           LAMBDA i : i.type = AUDIT_ADVISORY), <<>>)

\* parsingAndFilteringOutput of Runner B: the comma-joined advisory ids, or
\* a SyntaxError
parsingAndFilteringOutputB(text) ==
  LET auditLines == StringSplitLines(StringTrim(text))
  IN IF \A i \in 1..Len(auditLines) : JsonParses(auditLines[i])
       THEN LET auditResult ==
                  [i \in 1..Len(auditLines) |-> JsonValue(auditLines[i])]
                packagesWithNoPatch == findPackagesWithNoPatch(auditResult)
                advisoryIds ==
                  Join([i \in 1..Len(packagesWithNoPatch) |->
                          packagesWithNoPatch[i].advisoryId], ",")
            IN [ok |-> TRUE, value |-> advisoryIds]
       ELSE [ok |-> FALSE, value |-> <<>>]

\* run() up to its first await: runYarnAudit() spawns the scanner
MainB_SpawnsBoth ==
  /\ runner = "B"
  /\ pc = "start"
  /\ yarnAuditProcess' = "running"
  /\ auditOutput' = <<>>
  /\ promise' = Pending
  /\ improvedProcess' = "running"
  /\ improvedArgs' = Append(improvedArgs, <<"run", "improved-yarn-audit">>)
  /\ pc' = "awaitAudit"
  /\ UNCHANGED <<runner, argv, cwd, excludePackageList, scannerCode, console,
                 exitCode, improvedOutput, improvedCode, improvedPromise,
                 stderrChunks, severityCounter>>
MainB ==
  /\ runner = "B"
  /\ pc = "start"
  /\ yarnAuditProcess' = "running"
  /\ auditOutput' = <<>>
  /\ promise' = Pending
  /\ pc' = "awaitAudit"
  /\ UNCHANGED <<runner, argv, cwd, excludePackageList, scannerCode, console,
                 exitCode, improvedVars,
                 stderrChunks, severityCounter>>

\* yarnAuditProcess.stdout.on("data")
BStdoutData(chunk) ==
  /\ runner = "B"
  /\ pc = "awaitAudit"
  /\ yarnAuditProcess = "running"
  /\ ScannerStream(auditOutput \o chunk)
  /\ auditOutput' = auditOutput \o chunk
  /\ UNCHANGED <<runner, argv, pc, cwd, excludePackageList, yarnAuditProcess,
                 scannerCode, promise, console, exitCode, improvedVars,
                 stderrChunks, severityCounter>>

\* yarnAuditProcess.stderr.on("data")
BStderrData(chunk) ==
  /\ runner = "B"
  /\ pc = "awaitAudit"
  /\ yarnAuditProcess = "running"
  /\ Len(stderrChunks) < MaxStderrChunks
  /\ stderrChunks' = Append(stderrChunks, chunk)
  /\ console' = Append(console,
        [stream |-> "stderr", kind |-> "stderrText", text |-> chunk])
  /\ UNCHANGED <<runner, argv, pc, cwd, excludePackageList, scannerVars,
                 promise, exitCode, improvedVars, severityCounter>>

\* yarnAuditProcess.on("close")
BCloseHandler(code) ==
  /\ runner = "B"
  /\ pc = "awaitAudit"
  /\ yarnAuditProcess = "running"
  /\ CompleteLines(auditOutput)
  /\ yarnAuditProcess' = "closed"
  /\ scannerCode' = <<code>>
  /\ LET closedLine == [stream |-> "stdout", kind |-> "auditClosed",
                        code |-> code]
         parsed == parsingAndFilteringOutputB(auditOutput)
     IN IF code = 0
          THEN /\ console' = console \o
                    << closedLine,
                       [stream |-> "stdout", kind |-> "auditOutput",
                        text |-> auditOutput] >>
               /\ promise' = Fulfilled([isAuditProcessCompleted |-> TRUE,
                                        data |-> Null])
        ELSE IF code = 12
          THEN IF parsed.ok
                 THEN /\ console' = Append(console, closedLine)
                      /\ promise' =
                           Fulfilled([isAuditProcessCompleted |-> FALSE,
                                      data |-> parsed.value])
                 ELSE /\ console' = console \o
                           << closedLine,
                              [stream |-> "stderr", kind |-> "parseError",
                               error |-> "SyntaxError"],
                              [stream |-> "stderr", kind |-> "rawOutput",
                               text |-> auditOutput] >>
                      /\ promise' = Rejected(ParseFailure)
        ELSE /\ console' = console \o
                  << closedLine,
                     [stream |-> "stderr", kind |-> "rawOutput",
                      text |-> auditOutput] >>
             /\ promise' = Rejected(ScannerExitFailure(code))
  /\ UNCHANGED <<runner, argv, pc, cwd, excludePackageList, auditOutput,
                 exitCode, improvedVars,
                 stderrChunks, severityCounter>>

\* the argument list runYarnAuditImproved hands to spawn("yarn", ...)
ImprovedSpawnArgs_NoExcludeFlag(advisoryIds) ==
  <<"run", "improved-yarn-audit", advisoryIds>>
ImprovedSpawnArgs(advisoryIds) ==
  <<"run", "improved-yarn-audit", "--exclude", advisoryIds>>

GreenLine(text) == [stream |-> "stdout", kind |-> "green", text |-> text]
RedLine(message) == [stream |-> "stderr", kind |-> "red", message |-> message]

\* run() resumes after `await this.runYarnAudit()` fulfilled; in the else
\* branch runYarnAuditImproved(data) spawns the remediation
BRunAfterAudit ==
  /\ runner = "B"
  /\ pc = "awaitAudit"
  /\ promise.state = "fulfilled"
  /\ IF promise.value.isAuditProcessCompleted
       THEN /\ console' = Append(console,
                 GreenLine("Yarn Audit Completed Successfully!!"))
            /\ pc' = "runDone"
            /\ UNCHANGED improvedVars
       ELSE /\ improvedProcess' = "running"
            /\ improvedArgs' = Append(improvedArgs,
                 ImprovedSpawnArgs(promise.value.data))
            /\ improvedOutput' = <<>>
            /\ improvedPromise' = Pending
            /\ pc' = "awaitImproved"
            /\ UNCHANGED <<console, improvedCode>>
  /\ UNCHANGED <<runner, argv, cwd, excludePackageList, scannerVars, promise,
                 exitCode,
                 stderrChunks, severityCounter>>

\* improvedYarnAuditProcess.stdout.on("data")
ImprovedStdoutData(chunk) ==
  /\ runner = "B"
  /\ pc = "awaitImproved"
  /\ improvedProcess = "running"
  /\ Len(improvedOutput) < MaxImprovedChunks
  /\ improvedOutput' = improvedOutput \o chunk
  /\ UNCHANGED <<runner, argv, pc, cwd, excludePackageList, scannerVars,
                 promise, console, exitCode, improvedProcess, improvedArgs,
                 improvedCode, improvedPromise,
                 stderrChunks, severityCounter>>

\* improvedYarnAuditProcess.stderr.on("data")
ImprovedStderrData(chunk) ==
  /\ runner = "B"
  /\ pc = "awaitImproved"
  /\ improvedProcess = "running"
  /\ Len(stderrChunks) < MaxStderrChunks
  /\ stderrChunks' = Append(stderrChunks, chunk)
  /\ console' = Append(console,
        [stream |-> "stderr", kind |-> "stderrText", text |-> chunk])
  /\ UNCHANGED <<runner, argv, pc, cwd, excludePackageList, scannerVars,
                 promise, exitCode, improvedVars, severityCounter>>

\* improvedYarnAuditProcess.on("close")
ImprovedCloseHandler(code) ==
  /\ runner = "B"
  /\ pc = "awaitImproved"
  /\ improvedProcess = "running"
  /\ improvedProcess' = "closed"
  /\ improvedCode' = <<code>>
  /\ LET closedLine == [stream |-> "stdout", kind |-> "improvedClosed",
                        code |-> code]
     IN IF code = 0
          THEN /\ console' = console \o
                    << closedLine,
                       [stream |-> "stdout", kind |-> "improvedOutput",
                        text |-> improvedOutput] >>
               /\ improvedPromise' = Fulfilled(TRUE)
          ELSE /\ console' = console \o
                    << closedLine,
                       [stream |-> "stderr", kind |-> "rawOutput",
                        text |-> improvedOutput] >>
               /\ improvedPromise' = Rejected(ImprovedExitFailure(code))
  /\ UNCHANGED <<runner, argv, pc, cwd, excludePackageList, scannerVars,
                 promise, exitCode, improvedArgs, improvedOutput,
                 stderrChunks, severityCounter>>

\* run() resumes after `await this.runYarnAuditImproved(data)` fulfilled
BRunAfterImproved ==
  /\ runner = "B"
  /\ pc = "awaitImproved"
  /\ improvedPromise.state = "fulfilled"
  /\ console' = Append(console,
        GreenLine("Improved Yarn Audit Completed Successfully!!"))
  /\ pc' = "runDone"
  /\ UNCHANGED <<runner, argv, cwd, excludePackageList, scannerVars, promise,
                 exitCode, improvedVars,
                 stderrChunks, severityCounter>>

\* the catch block of run(): either awaited promise rejected
BRunCatch ==
  /\ runner = "B"
  /\ \/ pc = "awaitAudit" /\ promise.state = "rejected"
        /\ console' = Append(console, RedLine(promise.reason))
     \/ pc = "awaitImproved" /\ improvedPromise.state = "rejected"
        /\ console' = Append(console, RedLine(improvedPromise.reason))
  /\ pc' = "runDone"
  /\ UNCHANGED <<runner, argv, cwd, excludePackageList, scannerVars, promise,
                 exitCode, improvedVars,
                 stderrChunks, severityCounter>>

\* nothing is left to run after run() returned: the process ends with the
\* default exit code, which the script never changes
BExit_FailureStatus ==
  /\ runner = "B"
  /\ pc = "runDone"
  /\ exitCode' = IF \E i \in 1..Len(console) : console[i].kind = "red"
                   THEN <<1>> ELSE <<0>>
  /\ pc' = "exited"
  /\ UNCHANGED <<runner, argv, cwd, excludePackageList, scannerVars, promise,
                 console, improvedVars,
                 stderrChunks, severityCounter>>
BExit ==
  /\ runner = "B"
  /\ pc = "runDone"
  /\ exitCode' = <<0>>
  /\ pc' = "exited"
  /\ UNCHANGED <<runner, argv, cwd, excludePackageList, scannerVars, promise,
                 console, improvedVars,
                 stderrChunks, severityCounter>>

NextB ==
  \/ MainB
  \/ \E chunk \in StdoutChunks("B") : BStdoutData(chunk)
  \/ \E chunk \in StderrChunks : BStderrData(chunk)
  \/ \E code \in ScannerExitCodes : BCloseHandler(code)
  \/ BRunAfterAudit
  \/ \E chunk \in {<<Garbage>>} : ImprovedStdoutData(chunk)
  \/ \E chunk \in {<<Garbage, Newline>>} : ImprovedStderrData(chunk)
  \/ \E code \in ImprovedExitCodes : ImprovedCloseHandler(code)
  \/ BRunAfterImproved
  \/ BRunCatch
  \/ BExit

Next == NextA \/ NextSecond \/ NextB

Spec == Init /\ [][Next]_vars

\* node runs the callback registered on a promise once the promise is
\* settled: the .then and .catch callbacks of main cannot be postponed for
\* ever. When the scanner closes is up to the scanner: no fairness on it.
FairSpec == Spec /\ WF_vars(AThen) /\ WF_vars(ACatch)

(***************************************************************************)
(* Properties.                                                             *)
(***************************************************************************)
\* the scanner's stdout is line-delimited JSON: it is not blank, and every
\* line holds exactly one JSON text
StdoutIsJsonLines ==
  /\ \E i \in 1..Len(auditOutput) : auditOutput[i].tok # "nl"
  /\ \A i \in 1..Len(auditOutput) :
       IF auditOutput[i].tok = "nl"
         THEN i > 1 /\ auditOutput[i-1].tok # "nl"
         ELSE /\ auditOutput[i].tok = "json"
              /\ i > 1 => auditOutput[i-1].tok = "nl"

\* the records the scanner wrote, in order
ScannerRecords ==
  LET jsonTokens == SelectSeq(auditOutput, LAMBDA t : t.tok = "json")
  IN [i \in 1..Len(jsonTokens) |-> jsonTokens[i].value]

HasSummaryRecord ==
  \E i \in 1..Len(ScannerRecords) : ScannerRecords[i].type = AUDIT_SUMMARY

ExcludedNames == Range(excludePackageList)

\* positions in the scanner output of the advisories that are not excluded
IncludedPositions ==
  {i \in 1..Len(ScannerRecords) :
     /\ ScannerRecords[i].type = AUDIT_ADVISORY
     /\ ScannerRecords[i].module_name \notin ExcludedNames}

ConsoleKinds(kinds) == {i \in 1..Len(console) : console[i].kind \in kinds}

\* C1: for a scanner run that exits 12, Runner A's result is pass exactly
\* when no included advisory has severity critical or high; a readable
\* output with a summary always yields such a result.
C1_PassIffNoCriticalOrHigh ==
  (runner = "A" /\ scannerCode = <<12>>) =>
     /\ promise.state = "fulfilled" =>
          (promise.value <=>
             \A i \in IncludedPositions :
                ScannerRecords[i].severity \notin {"critical", "high"})
     /\ (StdoutIsJsonLines /\ HasSummaryRecord) => promise.state = "fulfilled"

\* C1 witness: a run that fails on one included high advisory for which no
\* patch is available, while another package is excluded.
C1_Witness ==
  /\ runner = "A" /\ scannerCode = <<12>>
  /\ promise.state = "fulfilled" /\ ~promise.value
  /\ excludePackageList = <<"bar">>
  /\ \E i \in IncludedPositions :
        /\ ScannerRecords[i].severity = "high"
        /\ ScannerRecords[i].patched_versions = <<"<", "0.0.0">>
        /\ \A j \in IncludedPositions : j = i

StatusRows == ConsoleKinds({"statusTable"})
ReportRows ==
  ConsoleKinds({"advisoryTable", "excludedHeader", "excludedTable",
                "summaryLine", "severityLine"})

\* C2: a run of Runner A that has ended has exit code 0 exactly when the
\* audit passed, and 1 when it failed or hit a fatal error (scanner exit
\* code other than 0 and 12, or unreadable stdout), in which case an error
\* message is on standard error; the PASS/FAIL row comes after every table
\* and summary line, is the last thing printed, and shows the result.
C2_ExitCodes ==
  (runner = "A") =>
     /\ exitCode # <<>> =>
          /\ exitCode \in {<<0>>, <<1>>}
          /\ exitCode = <<0>> <=>
               (promise.state = "fulfilled" /\ promise.value)
          /\ (promise.state = "fulfilled" /\ ~promise.value) =>
               exitCode = <<1>>
          /\ (/\ scannerCode # <<>>
              /\ \/ scannerCode \notin {<<0>>, <<12>>}
                 \/ ~StdoutIsJsonLines) =>
               /\ exitCode = <<1>>
               /\ \E i \in ConsoleKinds({"errorLine", "uncaught"}) :
                     console[i].stream = "stderr"
     /\ \A i \in StatusRows :
          /\ i = Len(console)
          /\ \A j \in ReportRows : j < i
          /\ exitCode # <<>>
          /\ promise.state = "fulfilled"
          /\ console[i].status.text = IF promise.value THEN "PASS" ELSE "FAIL"
     /\ (exitCode # <<>> /\ promise.state = "fulfilled") => StatusRows # {}

\* C2 witness: a failed audit that has exited with code 1 after the FAIL row.
C2_Witness ==
  /\ runner = "A" /\ exitCode = <<1>>
  /\ promise.state = "fulfilled" /\ ~promise.value
  /\ console[Len(console)].kind = "statusTable"
  /\ Len(console) > 2

ScannerClosed == scannerCode # <<>>

\* C3: in both runners the close handler of the scanner dispatches on the
\* exit code: 0 resolves as success; 12 parses the captured stdout (and
\* resolves when it is readable, rejects with the parse failure when not);
\* every other code rejects with the exit failure after the raw stdout was
\* written to standard error, and prints no report.
C3_CloseDispatch ==
  ScannerClosed =>
     /\ scannerCode = <<0>> =>
          /\ promise.state = "fulfilled"
          /\ runner = "A" => promise.value = TRUE
          /\ runner = "B" => promise.value.isAuditProcessCompleted
     /\ scannerCode = <<12>> =>
          /\ (StdoutIsJsonLines /\ (runner = "A" => HasSummaryRecord)) =>
               promise.state = "fulfilled"
          /\ ~StdoutIsJsonLines => promise = Rejected(ParseFailure)
     /\ scannerCode \notin {<<0>>, <<12>>} =>
          /\ promise = Rejected(ScannerExitFailure(scannerCode[1]))
          /\ \E i \in ConsoleKinds({"rawOutput"}) :
                console[i].stream = "stderr" /\ console[i].text = auditOutput
          /\ ReportRows = {}
          /\ improvedArgs = <<>>

\* the first-space rule spelled out: the sentinel itself, or the sentinel
\* with exactly one space somewhere in it
DenotesNoPatch(patched_versions) ==
  patched_versions \in
    { <<"<", "0.0.0">>, <<" ", "<", "0.0.0">>,
      <<"<", " ", "0.0.0">>, <<"<", "0.0.0", " ">> }

ShownPatchedIn(patched_versions) ==
  IF DenotesNoPatch(patched_versions)
    THEN <<"No patch available">>
    ELSE patched_versions

\* the advisory tables Runner A printed, in order
DisplayedRows ==
  LET tables == SelectSeq(console, LAMBDA e : e.kind = "advisoryTable")
  IN [i \in 1..Len(tables) |->
        [Package |-> tables[i].Package,
         Severity |-> tables[i].Severity.text,
         PatchedIn |-> tables[i].PatchedIn]]

\* the included advisories in scanner-output order, as rows
IncludedRows ==
  LET included ==
        SelectSeq(ScannerRecords,
                  LAMBDA r : /\ r.type = AUDIT_ADVISORY
                             /\ r.module_name \notin ExcludedNames)
  IN [i \in 1..Len(included) |->
        [Package |-> included[i].module_name,
         Severity |-> included[i].severity,
         PatchedIn |-> ShownPatchedIn(included[i].patched_versions)]]

RowsOfSeverity(severity) ==
  SelectSeq(IncludedRows, LAMBDA r : r.Severity = severity)

Rank(severity) ==
  CHOOSE k \in 1..Len(SEVERITY_LEVELS) : SEVERITY_LEVELS[k] = severity

ReportReached ==
  runner = "A" /\ scannerCode = <<12>> /\ StdoutIsJsonLines

\* C4: an advisory of an excluded package is in no advisory table, in no
\* summary count and not in the pass/fail decision, whatever its severity;
\* when every critical/high advisory belongs to an excluded package the run
\* passes and exits 0, and the excluded names are listed in the
\* excluded-packages table only.
C4_ExcludedContributeNothing ==
  ReportReached =>
     /\ \A i \in ConsoleKinds({"advisoryTable"}) :
           console[i].Package \notin ExcludedNames
     /\ \A i \in ConsoleKinds({"summaryLine"}) :
           console[i].found = Cardinality(IncludedPositions)
     /\ \A i \in ConsoleKinds({"severityLine"}) :
           /\ \A k \in 1..Len(console[i].counts) :
                 console[i].counts[k].count =
                   Cardinality({j \in IncludedPositions :
                      ScannerRecords[j].severity = console[i].counts[k].label})
           /\ \A j \in IncludedPositions :
                 \E k \in 1..Len(console[i].counts) :
                    console[i].counts[k].label = ScannerRecords[j].severity
     /\ (/\ HasSummaryRecord
         /\ \A j \in 1..Len(ScannerRecords) :
               (/\ ScannerRecords[j].type = AUDIT_ADVISORY
                /\ ScannerRecords[j].severity \in {"critical", "high"})
               => ScannerRecords[j].module_name \in ExcludedNames) =>
           /\ promise = Fulfilled(TRUE)
           /\ exitCode # <<>> => exitCode = <<0>>
     /\ excludePackageList # <<>> =>
           \E i \in ConsoleKinds({"excludedTable"}) :
              console[i].names = excludePackageList

\* C4 witness: the only critical advisory belongs to the excluded package
\* foo, a moderate advisory of bar is reported, and the run exited 0.
C4_Witness ==
  /\ ReportReached /\ exitCode = <<0>>
  /\ excludePackageList = <<"foo">>
  /\ \E j \in 1..Len(ScannerRecords) :
        /\ ScannerRecords[j].type = AUDIT_ADVISORY
        /\ ScannerRecords[j].module_name = "foo"
        /\ ScannerRecords[j].severity = "critical"
  /\ \E j \in IncludedPositions : ScannerRecords[j].severity = "moderate"

\* C5: the advisory tables appear in stable severity order: never a lower
\* rank after a higher one, and advisories of equal severity in the order
\* the scanner wrote them.
C5_StableSeverityOrder ==
  /\ ReportReached =>
       /\ \A i, j \in 1..Len(DisplayedRows) :
             i < j => Rank(DisplayedRows[i].Severity)
                        <= Rank(DisplayedRows[j].Severity)
       /\ DisplayedRows =
            RowsOfSeverity("critical") \o RowsOfSeverity("high")
              \o RowsOfSeverity("moderate") \o RowsOfSeverity("low")
              \o RowsOfSeverity("info")
  /\ ~ReportReached => DisplayedRows = <<>>

\* C5 witness: two advisories of equal severity for different packages were
\* displayed in the order the scanner wrote them, bar before foo.
C5_Witness ==
  /\ ReportReached
  /\ Len(DisplayedRows) = 2
  /\ DisplayedRows[1].Severity = DisplayedRows[2].Severity
  /\ DisplayedRows[1].Package = "bar" /\ DisplayedRows[2].Package = "foo"
  /\ IncludedRows = DisplayedRows

\* the {moduleName, advisoryId} advisories Runner B extracted
ExtractedIds ==
  SelectSeq(promise.value.data, LAMBDA x : x # ",")

BExtracted ==
  /\ runner = "B" /\ promise.state = "fulfilled"
  /\ ~promise.value.isAuditProcessCompleted

AdvisoryPositions ==
  {i \in 1..Len(ScannerRecords) : ScannerRecords[i].type = AUDIT_ADVISORY}

NoPatchPositions ==
  {i \in AdvisoryPositions :
     DenotesNoPatch(ScannerRecords[i].patched_versions)}

\* C6: both runners treat a patched-versions value as "no patch" exactly
\* when it is the sentinel <0.0.0 after removing its first space: Runner A
\* shows "No patch available" for those and the raw value for all others
\* (two spaces, a real range); Runner B extracts ids only from those, and
\* extracts one for every package that has such an advisory.
C6_FirstSpaceOnly ==
  /\ ReportReached =>
       Range(DisplayedRows) = Range(IncludedRows)
  /\ BExtracted =>
       /\ \A k \in 1..Len(ExtractedIds) :
             \E i \in NoPatchPositions :
                ScannerRecords[i].github_advisory_id = ExtractedIds[k]
       /\ \A i \in NoPatchPositions :
             \E j \in NoPatchPositions :
                /\ ScannerRecords[j].module_name = ScannerRecords[i].module_name
                /\ \E k \in 1..Len(ExtractedIds) :
                      ExtractedIds[k] = ScannerRecords[j].github_advisory_id

\* C6 witness: Runner A displayed "No patch available" for "< 0.0.0" and the
\* raw value for "<  0.0.0" in the same report.
C6_Witness ==
  /\ ReportReached
  /\ \E i \in IncludedPositions :
        ScannerRecords[i].patched_versions = <<"<", " ", "0.0.0">>
  /\ \E i \in IncludedPositions :
        ScannerRecords[i].patched_versions = <<"<", " ", " ", "0.0.0">>
  /\ \E k \in 1..Len(DisplayedRows) :
        DisplayedRows[k].PatchedIn = <<"No patch available">>
  /\ \E k \in 1..Len(DisplayedRows) :
        DisplayedRows[k].PatchedIn = <<"<", " ", " ", "0.0.0">>

\* positions of the no-patch advisories that are the first one of their
\* package, in scanner-output order
FirstNoPatchPositions ==
  SelectSeq([i \in 1..Len(ScannerRecords) |-> i],
            LAMBDA i : /\ i \in NoPatchPositions
                       /\ \A j \in NoPatchPositions :
                             j < i => ScannerRecords[j].module_name
                                        # ScannerRecords[i].module_name)

ExpectedIds ==
  [k \in 1..Len(FirstNoPatchPositions) |->
     ScannerRecords[FirstNoPatchPositions[k]].github_advisory_id]

\* C7: the extracted list has one entry per package with a no-patch
\* advisory, carrying the id of that package's first no-patch advisory, in
\* first-occurrence order; patched advisories contribute nothing.
C7_FirstPerModule ==
  BExtracted =>
     /\ ExtractedIds = ExpectedIds
     /\ Len(ExtractedIds) <= Cardinality(
           {ScannerRecords[i].module_name : i \in NoPatchPositions})

\* C7 witness: two no-patch advisories of one package with different ids;
\* only the first id was kept.
C7_Witness ==
  /\ BExtracted
  /\ Cardinality(NoPatchPositions) = 2
  /\ \A i, j \in NoPatchPositions :
        ScannerRecords[i].module_name = ScannerRecords[j].module_name
  /\ \E i, j \in NoPatchPositions :
        ScannerRecords[i].github_advisory_id
          # ScannerRecords[j].github_advisory_id
  /\ Len(ExtractedIds) = 1

\* C8: every advisory for which no patch is available has its id in the
\* --exclude argument handed to improved-yarn-audit.
C8_EveryNoPatchIdExcluded ==
  (runner = "B" /\ Len(improvedArgs) > 0) =>
     \A i \in NoPatchPositions :
        \E k \in 1..Len(improvedArgs[1][Len(improvedArgs[1])]) :
           improvedArgs[1][Len(improvedArgs[1])][k]
             = ScannerRecords[i].github_advisory_id

\* the ids joined with commas, read back from the joined text
IsCommaJoined(text, ids) ==
  /\ Len(text) = (IF Len(ids) = 0 THEN 0 ELSE 2 * Len(ids) - 1)
  /\ \A k \in 1..Len(text) :
        IF k % 2 = 0 THEN text[k] = "," ELSE text[k] = ids[(k + 1) \div 2]

BPastAudit == runner = "B" /\ pc \in {"awaitImproved", "runDone", "exited"}

\* C9: Runner B spawns the remediation at most once; it has been spawned
\* exactly when the scanner exited 12 with readable stdout and run() has
\* resumed, with arguments run improved-yarn-audit --exclude <ids joined by
\* commas>; after exit 0 the green success line is printed instead, and
\* after any other code or a parse failure nothing is spawned.
C9_RemediationIffVulnerable ==
  runner = "B" =>
     /\ Len(improvedArgs) <= 1
     /\ Len(improvedArgs) = 1 <=>
          (BPastAudit /\ scannerCode = <<12>> /\ StdoutIsJsonLines)
     /\ Len(improvedArgs) = 1 =>
          /\ Len(improvedArgs[1]) = 4
          /\ SubSeq(improvedArgs[1], 1, 3)
               = <<"run", "improved-yarn-audit", "--exclude">>
          /\ IsCommaJoined(improvedArgs[1][4], ExpectedIds)
          /\ improvedProcess # "unspawned"
     /\ Len(improvedArgs) = 0 => improvedProcess = "unspawned"
     /\ (BPastAudit /\ scannerCode = <<0>>) =>
          \E i \in ConsoleKinds({"green"}) :
             console[i].text = "Yarn Audit Completed Successfully!!"

\* C9 witness: a single no-patch advisory GHSA-1 and the remediation
\* running with --exclude GHSA-1.
C9_Witness ==
  /\ runner = "B" /\ improvedProcess = "running"
  /\ improvedArgs =
       << <<"run", "improved-yarn-audit", "--exclude", <<"GHSA-1">> >> >>
  /\ Cardinality(NoPatchPositions) = 1

\* C10: when the scanner exits with a code other than 0 and 12, either
\* runner reports the exit failure with the raw captured stdout on standard
\* error, and the process exits with code 1.
C10_FatalExitCode ==
  (ScannerClosed /\ scannerCode \notin {<<0>>, <<12>>} /\ pc = "exited") =>
     /\ \E i \in ConsoleKinds({"rawOutput"}) :
           console[i].stream = "stderr" /\ console[i].text = auditOutput
     /\ \E i \in ConsoleKinds({"errorLine", "red"}) :
           console[i].message = ScannerExitFailure(scannerCode[1])
     /\ exitCode = <<1>>

BRunReturned == runner = "B" /\ pc \in {"runDone", "exited"}

RedLines == ConsoleKinds({"red"})
GreenLines == ConsoleKinds({"green"})

\* C11: in Runner B every failure (a scanner exit code other than 0 and 12,
\* unreadable stdout after exit 12, a non-zero remediation exit) ends run()
\* with one red line carrying the failure's message and nothing escapes
\* run(); the process exit code is never anything but 0; a green success
\* line is printed only after the scanner or the remediation exited 0, and a
\* run prints either one green or one red line.
C11_FailuresLoggedNotSignalled ==
  runner = "B" =>
     /\ exitCode \in {<<>>, <<0>>}
     /\ pc = "exited" => exitCode = <<0>>
     /\ ConsoleKinds({"uncaught"}) = {}
     /\ GreenLines # {} => (scannerCode = <<0>> \/ improvedCode = <<0>>)
     /\ BRunReturned =>
          /\ (scannerCode \notin {<<0>>, <<12>>}) =>
               \E i \in RedLines :
                  console[i].message = ScannerExitFailure(scannerCode[1])
          /\ (scannerCode = <<12>> /\ ~StdoutIsJsonLines) =>
               \E i \in RedLines : console[i].message = ParseFailure
          /\ (improvedCode # <<>> /\ improvedCode # <<0>>) =>
               \E i \in RedLines :
                  console[i].message = ImprovedExitFailure(improvedCode[1])
          /\ Cardinality(RedLines) + Cardinality(GreenLines) = 1
          /\ RedLines # {} <=>
               \/ scannerCode \notin {<<0>>, <<12>>}
               \/ scannerCode = <<12>> /\ ~StdoutIsJsonLines
               \/ improvedCode # <<>> /\ improvedCode # <<0>>

\* C11 witness: the remediation exited 1, run() logged it in red and the
\* process has ended with exit code 0.
C11_Witness ==
  /\ runner = "B" /\ pc = "exited" /\ exitCode = <<0>>
  /\ improvedCode = <<1>>
  /\ \E i \in RedLines : console[i].message = ImprovedExitFailure(1)
  /\ GreenLines = {}

\* C12: started without arguments, Runner A prints the usage line and exits
\* with code 1 without spawning a subprocess or changing directory; started
\* with arguments, the first is the directory it changes into and is no
\* exclusion, and the exclusion list is exactly the remaining arguments.
C12_ArgumentHandling ==
  (runner \in {"A", "A2"}) =>
     /\ pc = "start" => (yarnAuditProcess = "unspawned" /\ cwd = ".")
     /\ (pc # "start" /\ Len(argv) = 0) =>
          /\ console = << [stream |-> "stdout", kind |-> "usage"] >>
          /\ exitCode = <<1>> /\ pc = "exited"
          /\ yarnAuditProcess = "unspawned"
          /\ cwd = "."
     /\ (pc # "start" /\ Len(argv) >= 1) =>
          /\ cwd = argv[1]
          /\ excludePackageList = Tail(argv)
          /\ ConsoleKinds({"usage"}) = {}

\* the list printAuditSummary is handed: the included advisories after exit
\* 12, nothing after exit 0
IncludedForSummary ==
  IF scannerCode = <<12>> THEN IncludedPositions ELSE {}

\* the severities in report order with the number of included advisories of
\* each, those with none left out
ExpectedBreakdown ==
  LET order == <<"critical", "high", "moderate", "low", "info">>
      perLevel ==
        [i \in 1..5 |->
           [label |-> order[i],
            count |-> Cardinality({p \in IncludedForSummary :
                                     ScannerRecords[p].severity = order[i]})]]
  IN SelectSeq(perLevel, LAMBDA c : c.count > 0)

TotalDependenciesOfSummary ==
  LET i == CHOOSE i \in 1..Len(ScannerRecords) :
             /\ ScannerRecords[i].type = AUDIT_SUMMARY
             /\ \A j \in 1..(i-1) : ScannerRecords[j].type # AUDIT_SUMMARY
  IN ScannerRecords[i].totalDependencies

\* C13: the summary line of Runner A reports the number of included
\* advisories and the totalDependencies of the auditSummary record; when the
\* number is not zero the next line is the breakdown, which lists, in the
\* order critical, high, moderate, low, info, exactly the severities with at
\* least one included advisory, each with its number; when it is zero there
\* is no breakdown. A resolved run printed exactly one summary line.
C13_SummaryLine ==
  runner = "A" =>
     /\ \A i \in ConsoleKinds({"summaryLine"}) :
           /\ console[i].found = Cardinality(IncludedForSummary)
           /\ console[i].audited = TotalDependenciesOfSummary
           /\ IF console[i].found > 0
                THEN /\ i < Len(console)
                     /\ console[i+1].kind = "severityLine"
                     /\ console[i+1].counts = ExpectedBreakdown
                ELSE i < Len(console) => console[i+1].kind # "severityLine"
     /\ \A i \in ConsoleKinds({"severityLine"}) :
           i > 1 /\ console[i-1].kind = "summaryLine"
     /\ promise.state = "fulfilled" =>
           Cardinality(ConsoleKinds({"summaryLine"})) = 1

\* C13 witness: two included advisories of the same severity with bar on the
\* exclusion list; the summary reports 2 found, 7 audited, and the breakdown
\* is "2 high".
C13_Witness ==
  /\ runner = "A" /\ scannerCode = <<12>>
  /\ excludePackageList = <<"bar">>
  /\ Cardinality(IncludedPositions) = 2
  /\ \E i \in ConsoleKinds({"summaryLine"}) :
        /\ console[i].found = 2 /\ console[i].audited = 7
        /\ console[i+1].counts = << [label |-> "high", count |-> 2] >>

\* C14: whenever the scanner exited 0, Runner A printed the summary of the
\* auditSummary record with nothing included (0 found, no breakdown, no
\* advisory table, no excluded table) and resolved with pass, whatever the
\* exclusion list is; the run then ends with the PASS row and exit code 0.
C14_CleanScanPasses ==
  (runner = "A" /\ scannerCode = <<0>>) =>
     /\ promise = Fulfilled(TRUE)
     /\ HasSummaryRecord
     /\ \E i \in ConsoleKinds({"summaryLine"}) :
           /\ console[i].found = 0
           /\ console[i].audited = TotalDependenciesOfSummary
     /\ ConsoleKinds({"severityLine", "advisoryTable", "excludedHeader",
                      "excludedTable"}) = {}
     /\ pc = "exited" =>
          /\ exitCode = <<0>>
          /\ \E i \in StatusRows : console[i].status = formatStatus(TRUE)

\* what the handlers of the stderr stream print, and the usage line
BeforeCloseKinds ==
  {"usage", "stderrParseError", "stderrRawLine", "stderrRecord", "stderrText"}

IsProperPrefix(t, u) ==
  Len(t) < Len(u) /\ SubSeq(u, 1, Len(t)) = t

\* before close nothing is settled and nothing but stderr diagnostics is
\* printed; what close produced is a function of the whole accumulated text
SettledFromWholeText ==
  runner \in {"A", "B"} =>
     /\ yarnAuditProcess # "closed" =>
          /\ promise = Pending
          /\ \A i \in 1..Len(console) : console[i].kind \in BeforeCloseKinds
     /\ (runner = "A" /\ scannerCode = <<12>>) =>
          /\ promise.state = "fulfilled" <=>
               (StdoutIsJsonLines /\ HasSummaryRecord)
          /\ promise.state = "fulfilled" =>
               \E i \in ConsoleKinds({"summaryLine"}) :
                  console[i].found = Cardinality(IncludedPositions)
     /\ (runner = "B" /\ scannerCode = <<12>>) =>
          /\ promise.state = "fulfilled" <=> StdoutIsJsonLines
          /\ promise.state = "fulfilled" =>
               IsCommaJoined(promise.value.data, ExpectedIds)

\* a step changes the accumulator only by appending while the scanner runs,
\* and settles the promise only while handling close
AppendThenSettle ==
  runner \in {"A", "B"} =>
     /\ auditOutput' # auditOutput =>
          /\ IsProperPrefix(auditOutput, auditOutput')
          /\ yarnAuditProcess = "running" /\ yarnAuditProcess' = "running"
          /\ promise' = promise /\ console' = console
     /\ promise' # promise =>
          /\ yarnAuditProcess = "running" /\ yarnAuditProcess' = "closed"
          /\ auditOutput' = auditOutput

\* C15: in Runner A and Runner B, under every interleaving of the scanner's
\* stdout data, stderr data and close events: the accumulator changes only
\* while the scanner runs, by appending what arrived, with nothing printed
\* and nothing settled in that step; the promise is settled only in the step
\* that handles close; before close nothing but stderr diagnostics is
\* printed; and what close produces is a function of the whole accumulated
\* text (readable or not, the included advisories, the extracted ids).
C15_ParseOnlyAtClose == []SettledFromWholeText /\ [][AppendThenSettle]_vars

\* C15 witness: in Runner A two lines arrived in at least two chunks, a
\* stderr chunk was handled before close, and close resolved the run.
C15_Witness ==
  /\ runner = "A" /\ scannerCode = <<12>> /\ promise.state = "fulfilled"
  /\ Len(auditOutput) = 4
  /\ Len(stderrChunks) = 1
  /\ console[1].kind \in BeforeCloseKinds

\* Runner B never has both subprocesses running, starts the remediation at
\* most once, and only after close of the scanner with exit 12 was handled
\* and its stdout was parsed
OneSubprocessAtATime ==
  runner = "B" =>
     /\ ~(yarnAuditProcess = "running" /\ improvedProcess = "running")
     /\ Len(improvedArgs) <= 1
     /\ improvedProcess # "unspawned" =>
          /\ Len(improvedArgs) = 1
          /\ yarnAuditProcess = "closed" /\ scannerCode = <<12>>
          /\ StdoutIsJsonLines
          /\ promise.state = "fulfilled"

\* a subprocess starts running only from never having been spawned: the
\* scanner when run() starts, the remediation when run() resumes after the
\* scanner's promise; one that has closed stays closed
SpawnedOnce ==
  runner = "B" =>
     /\ (yarnAuditProcess # "running" /\ yarnAuditProcess' = "running") =>
          (yarnAuditProcess = "unspawned" /\ pc = "start")
     /\ (improvedProcess # "running" /\ improvedProcess' = "running") =>
          (improvedProcess = "unspawned" /\ pc = "awaitAudit")
     /\ yarnAuditProcess = "closed" => yarnAuditProcess' = "closed"
     /\ improvedProcess = "closed" => improvedProcess' = "closed"
     /\ yarnAuditProcess # "unspawned" => yarnAuditProcess' # "unspawned"
     /\ improvedProcess # "unspawned" => improvedProcess' # "unspawned"

\* C16: in Runner B at most one subprocess is active at a time and each is
\* spawned at most once; the remediation is spawned only after the close
\* event of the scanner was handled and its stdout parsed successfully; after
\* a failure neither is spawned again.
C16_SequentialSubprocesses == []OneSubprocessAtATime /\ [][SpawnedOnce]_vars

\* C16 witness: the remediation was spawned once after a parsed exit-12 scan,
\* failed with exit code 1, and the run ended without another spawn.
C16_Witness ==
  /\ runner = "B" /\ pc = "exited"
  /\ yarnAuditProcess = "closed" /\ scannerCode = <<12>>
  /\ improvedProcess = "closed" /\ improvedCode = <<1>>
  /\ Len(improvedArgs) = 1

\* the entries console gained in this step
Printed == SubSeq(console', Len(console) + 1, Len(console'))

\* what a stderr chunk must leave on the console: one entry per line that is
\* JSON, in order, and for each line that is not, in order, the parse-error
\* note followed by the raw line; nothing else
LogsStderrChunk(chunk, printed) ==
  LET good == SelectSeq(chunk, LAMBDA t : t.tok = "json")
      bad == SelectSeq(chunk, LAMBDA t : t.tok = "text")
      records == SelectSeq(printed, LAMBDA e : e.kind = "stderrRecord")
      rawIdx == {i \in 1..Len(printed) : printed[i].kind = "stderrRawLine"}
      raws == SelectSeq(printed, LAMBDA e : e.kind = "stderrRawLine")
  IN /\ Len(printed) = Len(good) + 2 * Len(bad)
     /\ Len(records) = Len(good)
     /\ \A i \in 1..Len(good) :
           /\ records[i].type = good[i].value.type
           /\ records[i].data = good[i].value.data
     /\ Len(raws) = Len(bad)
     /\ \A i \in 1..Len(bad) :
           raws[i].stream = "stderr" /\ raws[i].line = <<bad[i]>>
     /\ \A i \in rawIdx :
           /\ i > 1
           /\ printed[i-1].kind = "stderrParseError"
           /\ printed[i-1].stream = "stderr"

\* handling a stderr chunk in Runner A logs its lines and touches nothing
\* else
StderrStepHarmless ==
  (runner = "A" /\ stderrChunks' # stderrChunks) =>
     /\ Len(stderrChunks') = Len(stderrChunks) + 1
     /\ LogsStderrChunk(stderrChunks'[Len(stderrChunks')], Printed)
     /\ SubSeq(console', 1, Len(console)) = console
     /\ auditOutput' = auditOutput
     /\ promise = Pending /\ promise' = Pending
     /\ exitCode' = exitCode /\ pc' = pc
     /\ yarnAuditProcess' = yarnAuditProcess
     /\ excludePackageList' = excludePackageList

\* the result and the exit code of a run that ended are those its exit code
\* and stdout determine, whether or not stderr chunks were handled
OutcomeIgnoresStderr ==
  (runner = "A" /\ pc = "exited" /\ Len(argv) > 0) =>
     /\ exitCode = <<0>> <=>
          /\ StdoutIsJsonLines /\ HasSummaryRecord
          /\ \/ scannerCode = <<0>>
             \/ /\ scannerCode = <<12>>
                /\ \A p \in IncludedPositions :
                      ScannerRecords[p].severity \notin {"critical", "high"}
     /\ exitCode # <<0>> => exitCode = <<1>>

ParsingPathTaken ==
  \/ runner = "A" /\ scannerCode \in {<<0>>, <<12>>}
  \/ runner = "B" /\ scannerCode = <<12>>

\* C18: when the captured stdout has a line that is not JSON, on every path
\* that parses it (exit 0 and exit 12 in Runner A, exit 12 in Runner B) the
\* error is caught, the raw captured text is written to standard error and
\* the run's promise is rejected with the parse failure; no advisory table,
\* no summary and no remediation comes from the lines that did parse.
C18_ParseFailureIsFatal ==
  (ParsingPathTaken /\ ~StdoutIsJsonLines) =>
     /\ promise = Rejected(ParseFailure)
     /\ ConsoleKinds({"uncaught"}) = {}
     /\ \E i \in ConsoleKinds({"rawOutput"}) :
           console[i].stream = "stderr" /\ console[i].text = auditOutput
     /\ ReportRows = {}
     /\ improvedArgs = <<>>

FiveSeverities == {"critical", "high", "moderate", "low", "info"}

\* a counter keyed by exactly the five severities with natural-number values
IsSeverityCounter(counter) ==
  /\ DOMAIN counter = FiveSeverities
  /\ \A l \in FiveSeverities : counter[l] \in Nat

\* C19: the per-severity counter of Runner A's summary has exactly the five
\* severities as its keys and non-negative integer values, both as it is
\* built (every value zero, whatever severities are observed) and after the
\* included records were accumulated, when its values sum to the number of
\* included records.
C19_FixedDomainCounter ==
  (runner \in {"A", "A2"} /\ severityCounter # <<>>) =>
     LET initial == severityCounter[1].initial
         counts == severityCounter[1].counts
     IN /\ IsSeverityCounter(initial)
        /\ \A l \in FiveSeverities : initial[l] = 0
        /\ IsSeverityCounter(counts)
        /\ counts["critical"] + counts["high"] + counts["moderate"]
             + counts["low"] + counts["info"]
             = Cardinality(IncludedForSummary)

\* exclusion lists a command line can give: up to two names, in any order,
\* with repetition
ExclusionLists == UNION {[1..n -> Modules] : n \in 0..2}

\* the orders the lines of a scanner output can come in
Reorderings(records) ==
  LET n == Len(records)
      perms == {f \in [1..n -> 1..n] : \A i, j \in 1..n : f[i] = f[j] => i = j}
  IN {[i \in 1..n |-> records[f[i]]] : f \in perms}

\* the pass/fail result of the report for a scanner output and an exclusion
\* list
PassWith(records, excludeList) ==
  excludeAndDisplayPackageInfo(records, excludeList).pass

\* C20: for the scanner output of a run of Runner A that resolved after exit
\* 12: if the run passed, the same output passes with every exclusion list
\* that contains all the names of the run's list; and the result is the same
\* for every exclusion list with the same names in another order and for
\* every order of the lines of the scanner output.
C20_ExclusionMonotone ==
  (runner = "A" /\ scannerCode = <<12>> /\ promise.state = "fulfilled") =>
     /\ \A larger \in ExclusionLists :
           (promise.value /\ ExcludedNames \subseteq Range(larger)) =>
              PassWith(ScannerRecords, larger)
     /\ \A reordered \in ExclusionLists :
           Range(reordered) = ExcludedNames =>
              PassWith(ScannerRecords, reordered) = promise.value
     /\ \A records \in Reorderings(ScannerRecords) :
           PassWith(records, excludePackageList) = promise.value

\* C20 witness: a run that passed with foo excluded although bar is listed
\* before foo, over an output with a high advisory of foo after a low one of
\* bar.
C20_Witness ==
  /\ runner = "A" /\ scannerCode = <<12>>
  /\ promise = Fulfilled(TRUE)
  /\ excludePackageList = <<"bar", "foo">>
  /\ Len(ScannerRecords) = 3
  /\ ScannerRecords[1].module_name = "bar" /\ ScannerRecords[1].severity = "low"
  /\ ScannerRecords[2].module_name = "foo" /\ ScannerRecords[2].severity = "high"

\* Runner A was started with arguments, so it spawned the scanner
AStarted == runner = "A" /\ Len(argv) > 0

\* the PASS row, the FAIL row and the ERROR: line
VerdictLines == ConsoleKinds({"statusTable", "errorLine"})

\* a run that has ended settled its promise and printed exactly one verdict;
\* while the scanner has not closed nothing is settled and the run goes on
EndsSettledWithOneVerdict ==
  AStarted =>
     /\ pc = "exited" =>
          /\ promise.state # "pending"
          /\ Cardinality(VerdictLines) = 1
     /\ yarnAuditProcess # "closed" =>
          (promise = Pending /\ pc # "exited" /\ exitCode = <<>>)

\* a settled promise is never settled again
SettledOnce ==
  (AStarted /\ promise.state # "pending") => promise' = promise

\* C21: if the scanner emits its close event, Runner A eventually
\* terminates, and when it has terminated the promise of runYarnAudit was
\* settled, exactly once, and exactly one of the PASS row, the FAIL row and
\* the ERROR: line was printed; as long as the scanner has not closed the
\* promise is not settled and the runner does not exit.
C21_TerminatesSettledOnce ==
  /\ []EndsSettledWithOneVerdict
  /\ [][SettledOnce]_vars
  /\ ((AStarted /\ yarnAuditProcess = "closed") ~> pc = "exited")

====
